---- MODULE Spec2Model ----
(***************************************************************************)
(* Model of preprocess_hubert_f0.py: the per-file feature extraction       *)
(* process_one, the per-slice loop process_batch and the process-pool      *)
(* fan-out parallel_process.                                               *)
(*                                                                         *)
(* File names and paths are sequences of one-character strings, so that    *)
(* string concatenation and str.replace are computed, not assumed.  The    *)
(* disk is a partial function from paths to file contents; a path exists   *)
(* iff it is in the function's domain.  The numeric payload of an artifact *)
(* is abstracted to what determines it: the input file it was computed     *)
(* from and the sampled augmentation parameters.                           *)
(*                                                                         *)
(* The calls into librosa, the predictors, the transforms and the vocoder  *)
(* are taken to return; the only exceptions are the ones process_one       *)
(* raises itself.  The sample rate librosa.load hands back is a property   *)
(* of the file, either the target rate or another one.                     *)
(*                                                                         *)
(* Three state machines share the actions:                                 *)
(*   Spec       one run of the script over a list of files and a pool;     *)
(*   RerunSpec  the script run repeatedly on one file, each run ending or  *)
(*              being killed at any step, the disk kept between runs;      *)
(*   SliceSpec  the submit loop alone, over longer lists and larger pools. *)
(***************************************************************************)
EXTENDS Integers, Sequences, FiniteSets, TLC

VARIABLES
    filenames,       \* the list handed to parallel_process (glob + shuffle)
    num_processes,   \* args.num_processes (after the 0 -> cpu_count fix-up)
    diff,            \* args.use_diff
    vol_embedding,   \* hps.model.vol_embedding
    mel_extractor,   \* TRUE iff mel_extractor is not None
    disk,            \* path -> content, for the paths that exist
    mainpc,          \* position of the parent process in parallel_process
    i,               \* loop variable of the submit loop (= len(tasks))
    j,               \* index of the task whose result() is awaited
    raised,          \* exception parallel_process ends with, or NoRaise
    status,          \* per task: state of its future / worker
    chunk,           \* per task: file_chunk it was submitted with
    pos,             \* per task: 1-based index in chunk of the current file
    pc,              \* per task: position inside process_one
    loc,             \* per task: locals sr, log10_vol_shift, keyshift
    exc,             \* per task: exception stored in its future
    completed,       \* filename -> number of process_one calls that returned
    log,             \* history: <<filename, artifact, what, existed>> events
    access,          \* history: <<path, task>> existence checks and writes
    rate,            \* filename -> sample rate librosa.load reports for it
    run              \* number of times the script has been started

vars == <<filenames, num_processes, diff, vol_embedding, mel_extractor, disk,
          mainpc, i, j, raised, status, chunk, pos, pc, loc, exc,
          completed, log, access, rate, run>>

----------------------------------------------------------------------------
(* Bounds of the model *)

MaxLen == 2
MaxProcs == 2
MaxRuns == 2
MaxSliceLen == 6
MaxSliceProcs == 6

----------------------------------------------------------------------------
(* Strings *)

Wav == <<".", "w", "a", "v">>
SpecPt == <<".", "s", "p", "e", "c", ".", "p", "t">>
F0Npy == <<".", "f", "0", ".", "n", "p", "y">>
VolNpy == <<".", "v", "o", "l", ".", "n", "p", "y">>
MelNpy == <<".", "m", "e", "l", ".", "n", "p", "y">>
AugMelNpy == <<".", "a", "u", "g", "_", "m", "e", "l", ".", "n", "p", "y">>
AugVolNpy == <<".", "a", "u", "g", "_", "v", "o", "l", ".", "n", "p", "y">>

\* str.replace(old, new): every non-overlapping occurrence, left to right
RECURSIVE Replace(_, _, _)
Replace(s, old, new) ==
    IF Len(s) < Len(old) THEN s
    ELSE IF SubSeq(s, 1, Len(old)) = old
         THEN new \o Replace(SubSeq(s, Len(old) + 1, Len(s)), old, new)
         ELSE <<Head(s)>> \o Replace(Tail(s), old, new)

\* The files glob("in_dir/*/*.wav") can find: names ending in ".wav"
AllFiles ==
    << <<"a">> \o Wav \o Wav,
       <<"a">> \o SpecPt \o Wav,
       <<"a">> \o Wav,
       <<"b">> \o Wav,
       <<"b">> \o Wav \o Wav >>

----------------------------------------------------------------------------
(* Artifact paths of process_one *)

Artifacts == {"f0", "spec", "vol", "mel", "aug_mel", "aug_vol"}

f0_path(filename) == filename \o F0Npy
spec_path(filename) == Replace(filename, Wav, SpecPt)
volume_path(filename) == filename \o VolNpy
mel_path(filename) == filename \o MelNpy
aug_mel_path(filename) == filename \o AugMelNpy
aug_vol_path(filename) == filename \o AugVolNpy

ArtifactPath(filename, a) ==
    CASE a = "f0" -> f0_path(filename)
      [] a = "spec" -> spec_path(filename)
      [] a = "vol" -> volume_path(filename)
      [] a = "mel" -> mel_path(filename)
      [] a = "aug_mel" -> aug_mel_path(filename)
      [] a = "aug_vol" -> aug_vol_path(filename)

----------------------------------------------------------------------------
(* Configuration and the values external calls hand back *)

sampling_rate == 44100

\* what librosa.load may report as the sample rate of a loaded file
SampleRates == {sampling_rate, sampling_rate \div 2}

\* random.uniform(-1, max_shift), max_shift <= 1: the ends of the range
VolShifts == {-1, 1}

\* random.uniform(-5, 5): the ends of the range
KeyShifts == {-5, 5}

NoExc == "none"
NoRaise == [task |-> -1, type |-> NoExc]
NoLoc == [sr |-> 0, log10_vol_shift |-> 0, keyshift |-> 0]

Content(filename, shift, key) == [of |-> filename, vol |-> shift, key |-> key]

----------------------------------------------------------------------------
(* Disk *)

exists(p) == p \in DOMAIN disk

save(d, p, c) == [q \in DOMAIN d \cup {p} |-> IF q = p THEN c ELSE d[q]]

Procs == 0 .. num_processes - 1

Range(s) == {s[k] : k \in 1 .. Len(s)}

InputDisk(fs) == [f \in Range(fs) |-> Content(f, 0, 0)]

----------------------------------------------------------------------------
(* parallel_process: slicing and submission *)

\* the slice bound with the division taken before the product
SliceBoundTruncFirst(k, len, n) == k * (len \div n)

\* int(i * len(filenames) / num_processes)
SliceBound(k, len, n) == (k * len) \div n

FileChunk(fs, k, n) ==
    SubSeq(fs, SliceBound(k, Len(fs), n) + 1, SliceBound(k + 1, Len(fs), n))

Submit ==
    /\ mainpc = "submit"
    /\ i < num_processes
    /\ chunk' = [chunk EXCEPT ![i] = FileChunk(filenames, i, num_processes)]
    /\ status' = [status EXCEPT ![i] = "queued"]
    /\ i' = i + 1
    /\ mainpc' = IF i + 1 < num_processes THEN "submit" ELSE "join"
    /\ UNCHANGED <<filenames, num_processes, diff, vol_embedding,
                   mel_extractor, disk, j, raised, pos, pc, loc, exc,
                   completed, log, access, rate, run>>

\* the pool runs the submitted work items in submission order, at most
\* max_workers (= num_processes) at a time
WorkerFree == Cardinality({u \in Procs : status[u] = "running"}) < num_processes

Start(t) ==
    /\ status[t] = "queued"
    /\ \A u \in Procs : u < t => status[u] # "queued"
    /\ WorkerFree
    /\ status' = [status EXCEPT ![t] = "running"]
    /\ UNCHANGED <<filenames, num_processes, diff, vol_embedding,
                   mel_extractor, disk, mainpc, i, j, raised, chunk, pos,
                   pc, loc, exc, completed, log, access, rate, run>>

----------------------------------------------------------------------------
(* process_batch and process_one, one action per step of process_one *)

Cur(t) == chunk[t][pos[t]]

Running(t, at) ==
    /\ status[t] = "running"
    /\ pc[t] = at
    /\ pos[t] <= Len(chunk[t])

\* One step of task t: it moves to nextpc with disk d and locals l, having
\* done the events ev and touched the paths ps; with e # NoExc the step
\* raises e instead, which ends process_batch and is stored in the future.
TaskStep(t, nextpc, d, l, ev, ps, e) ==
    /\ pc' = [pc EXCEPT ![t] = IF e = NoExc THEN nextpc ELSE @]
    /\ status' = [status EXCEPT ![t] = IF e = NoExc THEN @ ELSE "failed"]
    /\ exc' = [exc EXCEPT ![t] = e]
    /\ disk' = d
    /\ loc' = [loc EXCEPT ![t] = l]
    /\ log' = log \cup ev
    /\ access' = access \cup {<<p, t>> : p \in ps}
    /\ UNCHANGED <<filenames, num_processes, diff, vol_embedding,
                   mel_extractor, mainpc, i, j, raised, chunk, pos,
                   completed, rate, run>>

\* the events of a step that computes artifact a of file f and saves it
Made(f, a) ==
    {<<f, a, "compute", exists(ArtifactPath(f, a))>>,
     <<f, a, "save", exists(ArtifactPath(f, a))>>}

Load(t) ==
    /\ Running(t, "load")
    /\ TaskStep(t, "f0", disk, [loc[t] EXCEPT !.sr = rate[Cur(t)]], {}, {},
                NoExc)

F0Cached(f) == exists(f0_path(f))

F0Step(t) ==
    /\ Running(t, "f0")
    /\ LET f == Cur(t)
           p == f0_path(f)
       IN  IF F0Cached(f)
           THEN TaskStep(t, "spec", disk, loc[t], {}, {p}, NoExc)
           ELSE TaskStep(t, "spec", save(disk, p, Content(f, 0, 0)), loc[t],
                         Made(f, "f0"), {p}, NoExc)

SpecCached(f) == exists(spec_path(f))

\* the volume step taken in diffusion mode only
NeedsVolumeDiffOnly == diff

NeedsVolume == diff \/ vol_embedding

\* the volume step taken whatever the options are
AfterSpecAlwaysVol == "vol"

AfterSpec == IF NeedsVolume THEN "vol" ELSE IF diff THEN "mel" ELSE "ret"

\* lines 42-59: the existence check, the sample-rate test and the transform
SpecStep(t) ==
    /\ Running(t, "spec")
    /\ LET f == Cur(t)
           p == spec_path(f)
       IN  IF SpecCached(f)
           THEN TaskStep(t, AfterSpec, disk, loc[t], {}, {p}, NoExc)
           ELSE IF loc[t].sr # sampling_rate
           THEN TaskStep(t, AfterSpec, disk, loc[t], {}, {p}, "ValueError")
           ELSE TaskStep(t, "spec_save", disk, loc[t],
                         {<<f, "spec", "compute", exists(p)>>}, {p}, NoExc)

\* line 60: torch.save, taken as a step of its own because spec_path is the
\* one path two files can share; the other paths are the filename plus a
\* suffix, private to the file, so their check and save are one step
SpecSave(t) ==
    /\ Running(t, "spec_save")
    /\ LET f == Cur(t)
           p == spec_path(f)
       IN  TaskStep(t, AfterSpec, save(disk, p, Content(f, 0, 0)), loc[t],
                    {<<f, "spec", "save", exists(p)>>}, {p}, NoExc)

VolCached(f) == exists(volume_path(f))

AfterVol == IF diff THEN "mel" ELSE "ret"

VolStep(t) ==
    /\ Running(t, "vol")
    /\ LET f == Cur(t)
           p == volume_path(f)
       IN  IF VolCached(f)
           THEN TaskStep(t, AfterVol, disk, loc[t], {}, {p}, NoExc)
           ELSE TaskStep(t, AfterVol, save(disk, p, Content(f, 0, 0)),
                         loc[t], Made(f, "vol"), {p}, NoExc)

MelCached(f) == exists(mel_path(f))

MelStep(t) ==
    /\ Running(t, "mel")
    /\ LET f == Cur(t)
           p == mel_path(f)
       IN  IF ~MelCached(f) /\ mel_extractor
           THEN TaskStep(t, "aug", save(disk, p, Content(f, 0, 0)), loc[t],
                         Made(f, "mel"), {p}, NoExc)
           ELSE TaskStep(t, "aug", disk, loc[t], {}, {p}, NoExc)

\* lines 77-84: the parameters are sampled and both augmented arrays are
\* computed before either existence check
AugStep(t) ==
    /\ Running(t, "aug")
    /\ \E shift \in VolShifts, key \in KeyShifts :
         LET f == Cur(t)
             l == [loc[t] EXCEPT !.log10_vol_shift = shift, !.keyshift = key]
         IN  IF mel_extractor
             THEN TaskStep(t, "aug_mel", disk, l,
                      {<<f, "aug_mel", "compute", exists(aug_mel_path(f))>>,
                       <<f, "aug_vol", "compute", exists(aug_vol_path(f))>>},
                      {}, NoExc)
             ELSE TaskStep(t, "aug_mel", disk, l, {}, {}, "UnboundLocalError")

AugMelCached(f) == exists(aug_mel_path(f))

AugMelStep(t) ==
    /\ Running(t, "aug_mel")
    /\ LET f == Cur(t)
           p == aug_mel_path(f)
       IN  IF AugMelCached(f)
           THEN TaskStep(t, "aug_vol", disk, loc[t], {}, {p}, NoExc)
           ELSE TaskStep(t, "aug_vol",
                         save(disk, p, Content(f, loc[t].log10_vol_shift,
                                               loc[t].keyshift)),
                         loc[t], {<<f, "aug_mel", "save", exists(p)>>}, {p},
                         NoExc)

\* the augmented volume saved without looking for an earlier file
AugVolNeverCached(f) == FALSE

AugVolCached(f) == exists(aug_vol_path(f))

AugVolStep(t) ==
    /\ Running(t, "aug_vol")
    /\ LET f == Cur(t)
           p == aug_vol_path(f)
       IN  IF AugVolCached(f)
           THEN TaskStep(t, "ret", disk, loc[t], {}, {p}, NoExc)
           ELSE TaskStep(t, "ret",
                         save(disk, p, Content(f, loc[t].log10_vol_shift, 0)),
                         loc[t], {<<f, "aug_vol", "save", exists(p)>>}, {p},
                         NoExc)

\* process_one returns; the for loop of process_batch takes the next file
Return(t) ==
    /\ Running(t, "ret")
    /\ completed' = [completed EXCEPT ![Cur(t)] = @ + 1]
    /\ pos' = [pos EXCEPT ![t] = @ + 1]
    /\ pc' = [pc EXCEPT ![t] = "load"]
    /\ loc' = [loc EXCEPT ![t] = NoLoc]
    /\ UNCHANGED <<filenames, num_processes, diff, vol_embedding,
                   mel_extractor, disk, mainpc, i, j, raised, status, chunk,
                   exc, log, access, rate, run>>

\* the for loop of process_batch is exhausted: the future holds a result
Finish(t) ==
    /\ status[t] = "running"
    /\ pc[t] = "load"
    /\ pos[t] > Len(chunk[t])
    /\ status' = [status EXCEPT ![t] = "done"]
    /\ UNCHANGED <<filenames, num_processes, diff, vol_embedding,
                   mel_extractor, disk, mainpc, i, j, raised, chunk, pos,
                   pc, loc, exc, completed, log, access, rate, run>>

----------------------------------------------------------------------------
(* parallel_process: joining *)

\* a future taken as finished as soon as it is submitted
FinishedOnSubmit(t) == status[t] # "unsubmitted"

Finished(t) == status[t] \in {"done", "failed"}

\* task.result() blocks until the future is finished
ResultReady(t) == Finished(t)

\* tasks[j].result(): returns, or re-raises the exception of task j
Join ==
    /\ mainpc = "join"
    /\ j < num_processes
    /\ ResultReady(j)
    /\ IF status[j] = "failed"
       THEN /\ raised' = [task |-> j, type |-> exc[j]]
            /\ mainpc' = "shutdown"
            /\ j' = j
       ELSE /\ raised' = raised
            /\ mainpc' = IF j + 1 < num_processes THEN "join" ELSE "shutdown"
            /\ j' = j + 1
    /\ UNCHANGED <<filenames, num_processes, diff, vol_embedding,
                   mel_extractor, disk, i, status, chunk, pos, pc, loc, exc,
                   completed, log, access, rate, run>>

\* leaving the with block: executor.shutdown(wait=True) waits for every
\* submitted work item, then the pending exception (if any) propagates
\* the pool shut down without waiting: shutdown(wait=False)
ShutdownNoWait == TRUE

ShutdownReady == \A t \in Procs : Finished(t)

Shutdown ==
    /\ mainpc = "shutdown"
    /\ ShutdownReady
    /\ mainpc' = IF raised = NoRaise THEN "returned" ELSE "raised"
    /\ UNCHANGED <<filenames, num_processes, diff, vol_embedding,
                   mel_extractor, disk, i, j, raised, status, chunk, pos, pc,
                   loc, exc, completed, log, access, rate, run>>

----------------------------------------------------------------------------
(* Starting the script *)

\* the state in which parallel_process is entered, with the disk as found
Started(fs, n, d, v, dsk, done, lg, r) ==
    /\ rate \in [Range(fs) -> SampleRates]
    /\ filenames = fs
    /\ num_processes = n
    /\ diff = d
    /\ vol_embedding = v
    /\ mel_extractor = d
    /\ disk = dsk
    /\ mainpc = "submit"
    /\ i = 0
    /\ j = 0
    /\ raised = NoRaise
    /\ status = [t \in 0 .. n - 1 |-> "unsubmitted"]
    /\ chunk = [t \in 0 .. n - 1 |-> <<>>]
    /\ pos = [t \in 0 .. n - 1 |-> 1]
    /\ pc = [t \in 0 .. n - 1 |-> "load"]
    /\ loc = [t \in 0 .. n - 1 |-> NoLoc]
    /\ exc = [t \in 0 .. n - 1 |-> NoExc]
    /\ completed = done
    /\ log = lg
    /\ access = {}
    /\ run = r

\* hps.model.vol_embedding is read in one place, "diff or vol_embedding"
\* (line 62): with diff on its value changes nothing, and the pool is
\* explored for one value of it
Init ==
    \E len \in 0 .. MaxLen, n \in 1 .. MaxProcs,
       d \in BOOLEAN, v \in BOOLEAN :
        LET fs == SubSeq(AllFiles, 1, len)
        IN  /\ d => ~v
            /\ Started(fs, n, d, v, InputDisk(fs),
                       [f \in Range(fs) |-> 0], {}, 1)

Next ==
    \/ Submit
    \/ Join
    \/ Shutdown
    \/ \E t \in Procs : Start(t)
    \/ \E t \in Procs : Load(t)
    \/ \E t \in Procs : F0Step(t)
    \/ \E t \in Procs : SpecStep(t)
    \/ \E t \in Procs : SpecSave(t)
    \/ \E t \in Procs : VolStep(t)
    \/ \E t \in Procs : MelStep(t)
    \/ \E t \in Procs : AugStep(t)
    \/ \E t \in Procs : AugMelStep(t)
    \/ \E t \in Procs : AugVolStep(t)
    \/ \E t \in Procs : Return(t)
    \/ \E t \in Procs : Finish(t)

Spec == Init /\ [][Next]_vars

----------------------------------------------------------------------------
(* The pool under the scheduling the operating system gives the processes: *)
(* while some process can take a step, some process eventually takes one   *)

FairSpec == Spec /\ WF_vars(Next)

----------------------------------------------------------------------------
(* The script run again and again on one input file, each run either       *)
(* reaching its end or being interrupted (killed) at any point             *)

Ended == mainpc \in {"returned", "raised", "killed"}

Kill ==
    /\ ~Ended
    /\ mainpc' = "killed"
    /\ status' = [t \in Procs |-> "killed"]
    /\ UNCHANGED <<filenames, num_processes, diff, vol_embedding,
                   mel_extractor, disk, i, j, raised, chunk, pos, pc, loc,
                   exc, completed, log, access, rate, run>>

Rerun ==
    /\ Ended
    /\ run < MaxRuns
    /\ run' = run + 1
    /\ mainpc' = "submit"
    /\ i' = 0
    /\ j' = 0
    /\ raised' = NoRaise
    /\ status' = [t \in Procs |-> "unsubmitted"]
    /\ chunk' = [t \in Procs |-> <<>>]
    /\ pos' = [t \in Procs |-> 1]
    /\ pc' = [t \in Procs |-> "load"]
    /\ loc' = [t \in Procs |-> NoLoc]
    /\ exc' = [t \in Procs |-> NoExc]
    /\ access' = {}
    /\ UNCHANGED <<filenames, num_processes, diff, vol_embedding,
                   mel_extractor, disk, completed, log, rate>>

InitRerun ==
    \E k \in 1 .. Len(AllFiles), d \in BOOLEAN, v \in BOOLEAN :
        LET fs == <<AllFiles[k]>>
        IN  Started(fs, 1, d, v, InputDisk(fs), [f \in Range(fs) |-> 0], {}, 1)

NextRerun ==
    \/ Next
    \/ Kill
    \/ Rerun

RerunSpec == InitRerun /\ [][NextRerun]_vars

----------------------------------------------------------------------------
(* The submit loop alone, over longer lists and larger pools *)

RECURSIVE Stem(_)
Stem(k) == IF k = 0 THEN <<>> ELSE <<"a">> \o Stem(k - 1)

\* pairwise distinct .wav names
FileName(k) == Stem(k) \o Wav

InitSlice ==
    \E len \in 0 .. MaxSliceLen, n \in 1 .. MaxSliceProcs :
        LET fs == [k \in 1 .. len |-> FileName(k)]
        IN  Started(fs, n, FALSE, FALSE, InputDisk(fs),
                    [f \in Range(fs) |-> 0], {}, 1)

SliceSpec == InitSlice /\ [][Submit]_vars

----------------------------------------------------------------------------
(* Claims *)

RECURSIVE Concat(_, _)
\* chunk[0] \o ... \o chunk[n - 1]
Concat(c, n) == IF n = 0 THEN <<>> ELSE Concat(c, n - 1) \o c[n - 1]

\* s = floor(a / b), stated without division
IsFloor(s, a, b) == s * b <= a /\ a < (s + 1) * b

\* the (task, index) places at which file f sits in the submitted slices
Places(f) ==
    {<<t, k>> \in (0 .. i - 1) \X (1 .. Len(filenames)) :
        k <= Len(chunk[t]) /\ chunk[t][k] = f}

\* C1: every submitted slice k is filenames[int(k*L/N) : int((k+1)*L/N)],
\* and once all num_processes slices are submitted they are pairwise
\* disjoint, in list order (their concatenation is the list) and hold every
\* file of the list exactly once, also when num_processes > len(filenames).
C1_SlicesPartition ==
    LET L == Len(filenames)
        N == num_processes
    IN  /\ \A k \in 0 .. i - 1 :
              \E s \in 0 .. L, e \in 0 .. L :
                  /\ IsFloor(s, k * L, N)
                  /\ IsFloor(e, (k + 1) * L, N)
                  /\ s <= e
                  /\ chunk[k] = [x \in 1 .. e - s |-> filenames[s + x]]
        /\ i = N =>
              /\ Concat(chunk, N) = filenames
              /\ \A a \in Procs, b \in Procs :
                    a # b => Range(chunk[a]) \cap Range(chunk[b]) = {}
              /\ \A f \in Range(filenames) : Cardinality(Places(f)) = 1

\* all slices submitted, more processes than files, a non-empty list that
\* does not divide evenly
C1_Witness ==
    /\ i = num_processes
    /\ mainpc = "join"
    /\ num_processes > Len(filenames)
    /\ Len(filenames) >= 2
    /\ \E t \in Procs : chunk[t] = <<>>
    /\ \E t \in Procs : chunk[t] # <<>>

----------------------------------------------------------------------------

Exited == mainpc \in {"returned", "raised"}

Failed == {t \in Procs : status[t] = "failed"}

\* every file of task t's slice went through process_one exactly once
SliceDone(t) ==
    /\ pos[t] = Len(chunk[t]) + 1
    /\ \A k \in 1 .. Len(chunk[t]) : completed[chunk[t][k]] = 1

C8_Safety ==
    /\ mainpc # "submit" =>
          /\ i = num_processes
          /\ \A t \in Procs : status[t] # "unsubmitted"
    /\ Cardinality({t \in Procs : status[t] = "running"}) <= num_processes
    /\ Exited => \A t \in Procs : status[t] \in {"done", "failed"}
    /\ mainpc = "returned" =>
          /\ Failed = {}
          /\ \A k \in 1 .. Len(filenames) : completed[filenames[k]] = 1

\* C8: parallel_process submits exactly num_processes tasks, one per slice,
\* to a pool that runs at most num_processes of them at a time, and leaves
\* only after every submitted task has finished; when it returns, no task
\* has raised and process_one has returned exactly once for every file of
\* the list; and under fair scheduling, unless a task raises,
\* parallel_process eventually returns.
C8_FanOutJoin ==
    /\ []C8_Safety
    /\ <>(mainpc = "returned" \/ Failed # {})

\* parallel_process has returned from a run over two slices that each held
\* a file
C8_Witness ==
    /\ mainpc = "returned"
    /\ num_processes = 2
    /\ Len(filenames) = 2
    /\ \A t \in Procs : status[t] = "done" /\ Len(chunk[t]) = 1

\* C9: when process_one raises in a task, the files after the failing one
\* in that task's slice are never started and the failing file is not
\* completed; parallel_process still leaves only after every task has
\* finished, each task that did not raise having processed its whole slice;
\* and it ends by raising the exception of the lowest-indexed failed task,
\* never by returning normally.
C9_FailureIsolation ==
    /\ \A t \in Failed :
          /\ pos[t] <= Len(chunk[t])
          /\ \A k \in pos[t] .. Len(chunk[t]) : completed[chunk[t][k]] = 0
          /\ \A k \in pos[t] + 1 .. Len(chunk[t]) :
                <<f0_path(chunk[t][k]), t>> \notin access
    /\ Exited =>
          /\ \A t \in Procs : status[t] \in {"done", "failed"}
          /\ \A t \in Procs : status[t] = "done" => SliceDone(t)
          /\ Failed = {} => mainpc = "returned" /\ raised = NoRaise
          /\ Failed # {} =>
                /\ mainpc = "raised"
                /\ raised.task \in Failed
                /\ \A t \in Failed : raised.task <= t
                /\ raised.type = exc[raised.task]

\* parallel_process has ended with the exception of task 1, after task 0
\* processed its slice to the end
C9_Witness ==
    /\ mainpc = "raised"
    /\ raised = [task |-> 1, type |-> "ValueError"]
    /\ status[0] = "done"
    /\ chunk[0] # <<>>
    /\ SliceDone(0)

----------------------------------------------------------------------------

\* the artifacts of file f that are on disk
OnDisk(f) == {a \in Artifacts : exists(ArtifactPath(f, a))}

\* C3: once process_one has returned for a file, no later step of any run
\* with the same options (a re-run to the end, or one that is interrupted)
\* adds, removes or rewrites an artifact of that file, although the volume
\* shift and the key shift are sampled afresh in every run.
C3_Idempotent ==
    [][\A f \in Range(filenames) :
          completed[f] >= 1 =>
              \A a \in Artifacts :
                  LET p == ArtifactPath(f, a)
                  IN  /\ (p \in DOMAIN disk') = (p \in DOMAIN disk)
                      /\ p \in DOMAIN disk => disk'[p] = disk[p]]_vars

\* a second run in diffusion mode has reached the end of process_one with
\* both parameters sampled differently from the ones the saved files hold
C3_Witness ==
    /\ diff
    /\ run = 2
    /\ status[0] = "running"
    /\ pc[0] = "ret"
    /\ completed[filenames[1]] = 1
    /\ exists(aug_mel_path(filenames[1]))
    /\ exists(aug_vol_path(filenames[1]))
    /\ loc[0].log10_vol_shift # disk[aug_vol_path(filenames[1])].vol
    /\ loc[0].keyshift # disk[aug_mel_path(filenames[1])].key

\* the first run of the script, on a disk that holds the input files only,
\* has come to the end of process_one for file f
FreshDone(f) == run = 1 /\ completed[f] = 1

\* C4 as claimed: a successful process_one run that started with no
\* artifacts leaves between four and six artifact files for the file.
C4_FourToSix ==
    \A f \in Range(filenames) :
        FreshDone(f) =>
            Cardinality(OnDisk(f)) >= 4 /\ Cardinality(OnDisk(f)) <= 6

\* C4 as amended: such a run leaves two artifacts (f0, spec) with diff and
\* vol_embedding both off, three (f0, spec, vol) with diff off and
\* vol_embedding on, and all six with diff on.
C4_TwoThreeOrSix ==
    \A f \in Range(filenames) :
        FreshDone(f) =>
            Cardinality(OnDisk(f)) =
                IF diff THEN 6 ELSE IF vol_embedding THEN 3 ELSE 2

\* a first run with diff off and vol_embedding on has completed
C4_Witness ==
    /\ ~diff
    /\ vol_embedding
    /\ mainpc = "returned"
    /\ FreshDone(filenames[1])
    /\ OnDisk(filenames[1]) = {"f0", "spec", "vol"}

\* C5 as claimed: a successful run leaves f0, spec and vol whatever the
\* options are, and mel, aug_mel and aug_vol only with diff on.
C5_VolumeAlways ==
    \A f \in Range(filenames) :
        completed[f] >= 1 =>
            /\ {"f0", "spec", "vol"} \subseteq OnDisk(f)
            /\ ~diff => OnDisk(f) \cap {"mel", "aug_mel", "aug_vol"} = {}

\* some artifact a of f was computed or saved
Touched(f, a) == \E e \in log : e[1] = f /\ e[2] = a

\* C5 as amended: a successful run leaves f0 and spec whatever the options
\* are, vol exactly when diff or vol_embedding is on, and mel, aug_mel and
\* aug_vol exactly when diff is on; with diff off none of mel, aug_mel,
\* aug_vol is ever computed or written, and with diff and vol_embedding off
\* neither is vol.
C5_ByOptions ==
    \A f \in Range(filenames) :
        /\ completed[f] >= 1 =>
              OnDisk(f) = {"f0", "spec"}
                          \cup (IF diff \/ vol_embedding THEN {"vol"} ELSE {})
                          \cup (IF diff THEN {"mel", "aug_mel", "aug_vol"}
                                ELSE {})
        /\ ~diff =>
              \A a \in {"mel", "aug_mel", "aug_vol"} :
                  a \notin OnDisk(f) /\ ~Touched(f, a)
        /\ ~(diff \/ vol_embedding) =>
              "vol" \notin OnDisk(f) /\ ~Touched(f, "vol")

\* a run with diff and vol_embedding off has completed
C5_Witness ==
    /\ ~diff
    /\ ~vol_embedding
    /\ mainpc = "returned"
    /\ completed[filenames[1]] >= 1
    /\ OnDisk(filenames[1]) = {"f0", "spec"}

----------------------------------------------------------------------------

\* C2 as claimed: no step computes or saves an artifact whose file exists
\* when the step is reached.
C2_EveryStepGated == \A e \in log : ~e[4]

EndsWith(s, suf) ==
    /\ Len(s) >= Len(suf)
    /\ SubSeq(s, Len(s) - Len(suf) + 1, Len(s)) = suf

\* the list holds pairwise distinct names that end in ".wav"
DistinctWavs ==
    /\ \A a \in 1 .. Len(filenames), b \in 1 .. Len(filenames) :
           filenames[a] = filenames[b] => a = b
    /\ \A a \in 1 .. Len(filenames) : EndsWith(filenames[a], Wav)

\* C6 as claimed: given pairwise distinct .wav filenames, no path is
\* existence-checked or written by two different tasks.
C6_NoSharedPath ==
    DistinctWavs =>
        \A x \in access, y \in access : x[1] = y[1] => x[2] = y[2]

C10_AugPairConsistent ==
    \A f \in Range(filenames) :
        (diff /\ exists(aug_mel_path(f)) /\ exists(aug_vol_path(f))) =>
            disk[aug_mel_path(f)].vol = disk[aug_vol_path(f)].vol

====
